---- MODULE Spec2Model ----
(***************************************************************************)
(* Model of the Brother QL driver (brother-ql-rs): the status codec, the   *)
(* job header builder, the raster encoder and the print state machine of   *)
(* ThermalPrinter::print_image / cmd_print / read_loop.                    *)
(*                                                                         *)
(* Bytes are naturals 0..255; a byte buffer is a sequence.  The source     *)
(* indexes buffers from 0, so At(buf, i) reads source index i.             *)
(***************************************************************************)
EXTENDS Naturals, Sequences, FiniteSets

VARIABLES
    pc,              \* position of the print_image call
    copies,          \* argument `copies` of print_image / cmd_print
    lines,           \* Vec<[u8; 90]> handed to cmd_print
    status,          \* `status` of cmd_print (reply to its status request)
    state,           \* `state` of cmd_print, mutated by read_loop
    printed_copies,  \* `printed_copies` of cmd_print
    line_idx,        \* position of `for line in lines.iter()` (1-based)
    wlog,            \* every write_bulk issued so far: data and outcome
    rl_path,         \* states the read_loop being run went through, entry
                     \* first, until its caller has looked at the result
    rl_reads,        \* what read() returned to that read_loop, in order
                     \* (recorded by ReadLoopTraced only)
    last_read,       \* the read_bulk of the step just taken and whether
                     \* read() parsed it (recorded by ReadLoopTraced only)
    cover_seen,      \* a frame with byte 9 bit 0x10 was read by read_loop
    result,          \* what print_image returned (or how it panicked)
    arg,             \* argument of the function called on its own (the
                     \* specifications of the codec, the job builder, the
                     \* raster encoder and the constructor)
    ret              \* what that call returned, NoRet before it has

vars == <<pc, copies, lines, status, state, printed_copies, line_idx, wlog,
          last_read, rl_reads, rl_path, cover_seen, result, arg, ret>>

----------------------------------------------------------------------------
(* Bounds of the model *)

MaxCopies == 2
MaxLines == 2
MaxFails == 1

----------------------------------------------------------------------------
(* Program constants *)

RASTER_LINE_LENGTH == 90
PRINTER_STATUS_SIZE == 32
HEAD_WIDTH == 720
INVALIDATE_LENGTH == 400

----------------------------------------------------------------------------
(* Byte helpers *)

At(buf, i) == buf[i + 1]

Zeros(n) == [i \in 1..n |-> 0]

\* byte & flag != 0, for a single-bit flag
HasFlag(byte, flag) == (byte \div flag) % 2 = 1

RECURSIVE BitAnd(_, _)
BitAnd(a, b) ==
    IF a = 0 \/ b = 0 THEN 0
    ELSE (a % 2) * (b % 2) + 2 * BitAnd(a \div 2, b \div 2)

RECURSIVE BitOr(_, _)
BitOr(a, b) ==
    IF a = 0 THEN b
    ELSE IF b = 0 THEN a
    ELSE (IF a % 2 = 1 \/ b % 2 = 1 THEN 1 ELSE 0) + 2 * BitOr(a \div 2, b \div 2)

\* u8 << n, truncated to 8 bits
Shl8(a, n) == (a * (2 ^ n)) % 256

----------------------------------------------------------------------------
(* Results and errors *)

Ok(v) == [ok |-> TRUE, val |-> v]
Err(e) == [ok |-> FALSE, val |-> e]

\* PrinterError::Usb(rusb::Error::<e>)
UsbError(e) == [kind |-> "Usb", msg |-> e, detail |-> ""]
\* PrinterError::Printer(format!(msg, detail))
PrinterErr(msg, detail) == [kind |-> "Printer", msg |-> msg, detail |-> detail]

\* rusb errors a bulk transfer may end with
UsbErrors == {"Timeout", "Busy"}

----------------------------------------------------------------------------
(* Status codec: ThermalPrinter::interpret_response *)

\* a plausible slip: "Replace Media" tested on response[8], as the calls
\* above it are
ErrorFlags_wrong_byte ==
    << <<8, 1, "No media when printing">>,
       <<8, 2, "End of media (die-cut)">>,
       <<8, 4, "Tape cutter jam">>,
       <<8, 16, "Main unit in use">>,
       <<8, 32, "Printer turned off">>,
       <<8, 64, "High-voltage adapter">>,
       <<8, 128, "Fan doesn't work">>,
       <<8, 1, "Replace Media">>,
       <<9, 2, "Expansion buffer full">>,
       <<9, 4, "Communication error">>,
       <<9, 8, "Communication buffer full">>,
       <<9, 16, "Cover open">>,
       <<9, 32, "Cancel key">>,
       <<9, 64, "Cannot feed">>,
       <<9, 128, "System error">> >>

\* fn error_if: the messages of the set bits, in the order of the calls
ErrorFlags ==
    << <<8, 1, "No media when printing">>,
       <<8, 2, "End of media (die-cut)">>,
       <<8, 4, "Tape cutter jam">>,
       <<8, 16, "Main unit in use">>,
       <<8, 32, "Printer turned off">>,
       <<8, 64, "High-voltage adapter">>,
       <<8, 128, "Fan doesn't work">>,
       <<9, 1, "Replace Media">>,
       <<9, 2, "Expansion buffer full">>,
       <<9, 4, "Communication error">>,
       <<9, 8, "Communication buffer full">>,
       <<9, 16, "Cover open">>,
       <<9, 32, "Cancel key">>,
       <<9, 64, "Cannot feed">>,
       <<9, 128, "System error">> >>

RECURSIVE error_if(_, _)
error_if(response, k) ==
    IF k > Len(ErrorFlags) THEN <<>>
    ELSE (IF HasFlag(At(response, ErrorFlags[k][1]), ErrorFlags[k][2])
          THEN <<ErrorFlags[k][3]>> ELSE <<>>) \o error_if(response, k + 1)

MediaTypeOf(b) ==
    CASE b \in {10, 74} -> "ContinuousTape"
      [] b \in {11, 75} -> "DieCutLabels"
      [] b = 0 -> "None"
      [] OTHER -> "Invalid"

\* a plausible slip: the unused status type 3 taken for a notification
StatusTypeOf_accepts_3(b) ==
    CASE b = 0 -> "ReplyToStatusRequest"
      [] b = 1 -> "PrintingCompleted"
      [] b = 2 -> "ErrorOccurred"
      [] b = 3 -> "Notification"
      [] b = 4 -> "TurnedOff"
      [] b = 5 -> "Notification"
      [] b = 6 -> "PhaseChange"
      [] OTHER -> "Invalid"

StatusTypeOf(b) ==
    CASE b = 0 -> "ReplyToStatusRequest"
      [] b = 1 -> "PrintingCompleted"
      [] b = 2 -> "ErrorOccurred"
      [] b = 4 -> "TurnedOff"
      [] b = 5 -> "Notification"
      [] b = 6 -> "PhaseChange"
      [] OTHER -> "Invalid"

PhaseTypeOf(b) ==
    CASE b = 0 -> "WaitingToReceive"
      [] b = 1 -> "PrintingState"
      [] OTHER -> "Invalid"

NotificationOf(b) ==
    CASE b = 0 -> "NotAvailable"
      [] b = 3 -> "CoolingStarted"
      [] b = 4 -> "CoolingFinished"
      [] OTHER -> "Invalid"

ModelOf(b) == IF b = 56 THEN "QL-800" ELSE "Invalid"

\* a plausible slip: the reserved bytes the protocol document fixes at 00h
\* checked along with byte 16
reserved_16_ok_through_31(response) ==
    At(response, 16) = 0 /\ \A i \in 23..31 : At(response, i) = 0

\* interpret_response, `if response[16] != 0x00`: bytes 23..31 are described
\* in comments only
reserved_16_ok(response) == At(response, 16) = 0

interpret_response(response) ==
    IF SubSeq(response, 1, 3) # <<128, 32, 66>> THEN
        Err(PrinterErr("Invalid response from printer: response[0..=2] != [0x80, 0x20, 0x42]", ""))
    ELSE IF At(response, 3) # 52 THEN
        Err(PrinterErr("Invalid response from printer: response[3]", ""))
    ELSE IF ModelOf(At(response, 4)) = "Invalid" THEN
        Err(PrinterErr("Unknown model", ""))
    ELSE IF At(response, 5) # 48 THEN
        Err(PrinterErr("Invalid response from printer: response[5]", ""))
    ELSE IF At(response, 6) \notin {48, 0} THEN
        Err(PrinterErr("Invalid response from printer", ""))
    ELSE IF At(response, 7) # 0 THEN
        Err(PrinterErr("Invalid response from printer: response[7]", ""))
    ELSE IF MediaTypeOf(At(response, 11)) = "Invalid" THEN
        Err(PrinterErr("unknown media type", ""))
    ELSE IF SubSeq(response, 13, 14) # <<0, 0>> THEN
        Err(PrinterErr("Invalid response from printer: response[12..=13]", ""))
    ELSE IF ~reserved_16_ok(response) THEN
        Err(PrinterErr("Invalid response from printer: response[16]", ""))
    ELSE IF StatusTypeOf(At(response, 18)) = "Invalid" THEN
        Err(PrinterErr("Invalid status type (response[18]) from printer", ""))
    ELSE IF PhaseTypeOf(At(response, 19)) = "Invalid" THEN
        Err(PrinterErr("Invalid phase type: response[19]", ""))
    ELSE IF NotificationOf(At(response, 22)) = "Invalid" THEN
        Err(PrinterErr("Invalid notification: response[22]", ""))
    ELSE
        Ok([model |-> ModelOf(At(response, 4)),
            status_type |-> StatusTypeOf(At(response, 18)),
            errors |-> error_if(response, 1),
            media |-> [media_type |-> MediaTypeOf(At(response, 11)),
                       width |-> At(response, 10),
                       length |-> At(response, 17)],
            phase_type |-> PhaseTypeOf(At(response, 19)),
            notification |-> NotificationOf(At(response, 22))])

----------------------------------------------------------------------------
(* Frames the device may send.  MkFrame builds a well-formed QL-800 status *)
(* frame from the bytes the driver looks at; bytes 14 and 25 carry the     *)
(* values observed on the device.                                          *)

MkFrame(err2, width, mtype, length, stype, phase, notif) ==
    <<128, 32, 66, 52, 56, 48, 48, 0, 0, err2, width, mtype, 0, 0, 63, 0,
      0, length, stype, phase, 0, 0, notif, 0, 0, 1, 0, 0, 0, 0, 0, 0>>

FReplyWaiting     == MkFrame(0, 62, 10, 0, 0, 0, 0)
FReplyPrinting    == MkFrame(0, 62, 10, 0, 0, 1, 0)
FPhasePrinting    == MkFrame(0, 62, 10, 0, 6, 1, 0)
FPhaseWaiting     == MkFrame(0, 62, 10, 0, 6, 0, 0)
FPrintingDone     == MkFrame(0, 62, 10, 0, 1, 1, 0)
FCoolingStarted   == MkFrame(0, 62, 10, 0, 5, 1, 3)
FCoolingFinished  == MkFrame(0, 62, 10, 0, 5, 1, 4)
FErrorCoverOpen   == MkFrame(16, 62, 10, 0, 2, 1, 0)
FPhaseCoverOpen   == MkFrame(16, 62, 10, 0, 6, 1, 0)
FReplyDieCut      == MkFrame(0, 29, 11, 90, 0, 0, 0)
FReplyUnknownSize == MkFrame(0, 99, 10, 0, 0, 0, 0)
FReplyBadMedia    == MkFrame(0, 62, 119, 0, 0, 0, 0)

Frames ==
    {FReplyWaiting, FReplyPrinting, FPhasePrinting, FPhaseWaiting,
     FPrintingDone, FCoolingStarted, FCoolingFinished, FErrorCoverOpen,
     FPhaseCoverOpen, FReplyDieCut, FReplyUnknownSize, FReplyBadMedia}

\* Outcomes of handle.read_bulk on the IN endpoint: an error, or the bytes
\* transferred (a whole frame, a truncated frame, a frame with a wrong
\* head mark, or nothing).
BulkOk(data) == [err |-> "None", data |-> data]
BulkReads ==
    {BulkOk(f) : f \in Frames}
    \cup {BulkOk(SubSeq(FReplyWaiting, 1, 20)),
          BulkOk([FPhasePrinting EXCEPT ![1] = 0]),
          BulkOk(<<>>)}
    \cup {[err |-> e, data |-> <<>>] : e \in UsbErrors}

\* `response` after read_bulk stored `data` into the zeroed buffer
Buffer(data) == data \o Zeros(PRINTER_STATUS_SIZE - Len(data))

\* ThermalPrinter::read, one pass of its loop.  A transfer of 0 bytes sleeps
\* and reads again; every other pass ends the loop and read() returns
\* read(bulk): a malformed transfer is reported on stderr and then parsed
\* like any other.
read_retries(bulk) == bulk.err = "None" /\ Len(bulk.data) = 0

read(bulk) ==
    IF bulk.err # "None" THEN Err(UsbError(bulk.err))
    ELSE interpret_response(Buffer(bulk.data))

\* whether this pass of read() hands the buffer to interpret_response
read_parses(bulk) == bulk.err = "None" /\ ~read_retries(bulk)

\* the `invalid response received from printer` report of read()
read_reports_invalid(bulk) ==
    /\ bulk.err = "None"
    /\ Len(bulk.data) # 0
    /\ (Len(bulk.data) # PRINTER_STATUS_SIZE \/ At(Buffer(bulk.data), 0) # 128)

----------------------------------------------------------------------------
(* Label catalogue: constants::label_data, keyed by (width, Option<length>) *)
(* with None written <<>> and Some(l) written <<l>>.                        *)

Some(x) == <<x>>
None == <<>>

label_data(width, length) ==
    IF width = 62 /\ length = None
        THEN Some([dots_printable |-> <<696, 0>>, feed_margin |-> 35])
    ELSE IF width = 29 /\ length = Some(90)
        THEN Some([dots_printable |-> <<306, 991>>, feed_margin |-> 0])
    ELSE None

\* Media::to_label without its expect(): None is where the expect() panics
to_label(media) ==
    label_data(media.width, IF media.length = 0 THEN None ELSE Some(media.length))

\* the Option current_label turns into Ok(label) or the Printer error
current_label(media) ==
    IF to_label(media) = None
        THEN Err(PrinterErr("Unknown media loaded in printer", ""))
        ELSE Ok(to_label(media)[1])

----------------------------------------------------------------------------
(* Job builder: job::Info *)

\* a plausible slip: the margin, a u8 in the catalogue, written as one byte
u16_le_one_byte(x) == <<x % 256>>

u16_le(x) == <<x % 256, (x \div 256) % 256>>
u32_le(x) == <<x % 256, (x \div 256) % 256, (x \div 65536) % 256,
               (x \div 16777216) % 256>>
Bool8(b) == IF b THEN 1 ELSE 0

\* Info::new
Info_new(media, num_lines) ==
    [media |-> media, num_lines |-> num_lines, page |-> "Other",
     prioritize_quality |-> TRUE, cut_each |-> 1, auto_cut |-> TRUE,
     cut_at_end |-> TRUE, high_resolution |-> FALSE]

\* the panics of Info::serialize: the media type match and to_label's expect
serialize_panics(info) ==
    info.media.media_type = "None" \/ to_label(info.media) = None

serialize_panic_message(info) ==
    IF info.media.media_type = "None" THEN "no media loaded"
    ELSE "Printer reported invalid label dimensions"

\* a plausible slip: the parenthesis closed after the quality flag, so that
\* the media flags are masked with it
ValidFlags_media_masked(info) ==
    BitOr(BitAnd(BitOr(BitOr(BitOr(2, 4), 8), 64),
                 Shl8(Bool8(info.prioritize_quality), 6)), 128)

\* Info::serialize, the valid-flags byte of the print information command
ValidFlags(info) ==
    BitOr(BitOr(BitOr(2, 4), 8),
          BitOr(BitAnd(64, Shl8(Bool8(info.prioritize_quality), 6)), 128))

\* Info::serialize, when it does not panic
serialize(info) ==
    (<<27, 105, 122,
       ValidFlags(info),
       IF info.media.media_type = "ContinuousTape" THEN 10 ELSE 11,
       info.media.width,
       info.media.length>>
       \o u32_le(info.num_lines)
       \o <<IF info.page = "Starting" THEN 0 ELSE 1, 0>>)
    \o <<27, 105, 65, info.cut_each>>
    \o <<27, 105, 77, Shl8(Bool8(info.auto_cut), 6)>>
    \o <<27, 105, 75, BitOr(Shl8(Bool8(info.cut_at_end), 3),
                            Shl8(Bool8(info.high_resolution), 6))>>
    \o (<<27, 105, 100>> \o u16_le(to_label(info.media)[1].feed_margin))

----------------------------------------------------------------------------
(* Raster encoder: utils::rasterize_image_to_ql_tiff.  A GrayImage is its  *)
(* width, its height and its pixels px[row][col], both counted from 0 in   *)
(* the source and from 1 here.                                             *)

GetPixel(image, col, row) == image.px[row + 1][col + 1]

\* a plausible slip: a pixel of luma 127 taken for white, as the dither
\* palette does
luma_bit_below_127(luma) == IF luma >= 255 \div 2 THEN 0 ELSE 1

\* `if luma_pixel[0] > 0xFF / 2 { 0 } else { 1 }`
luma_bit(luma) == IF luma > 255 \div 2 THEN 0 ELSE 1

\* a plausible slip: the bits of a byte filled from the high bit down
RasterCol_msb_first(image, row, col, line) ==
    IF col >= image.width THEN line
    ELSE LET line_byte == (719 \div 8) - (col \div 8)
             line_bit_index == 7 - (col % 8)
             value == luma_bit(GetPixel(image, col, row))
         IN [line EXCEPT ![line_byte + 1] =
                BitOr(@, Shl8(value, line_bit_index))]

\* the body of `for col in 0..720` for one column; a column at or beyond
\* the width breaks out of the loop, which leaves the line as it is for
\* this column and all that follow
RasterCol(image, row, col, line) ==
    IF col >= image.width THEN line
    ELSE LET line_byte == (719 \div 8) - (col \div 8)
             line_bit_index == col % 8
             value == luma_bit(GetPixel(image, col, row))
         IN [line EXCEPT ![line_byte + 1] =
                BitOr(@, Shl8(value, line_bit_index))]

\* the passes of `for col in 0..720` for the columns lo .. hi - 1, in
\* order.  The range is halved, and the line the first half leaves is
\* measured (it is a [u8; 90]) before the second half starts from it, which
\* keeps the evaluation shallow.
RECURSIVE RasterCols(_, _, _, _, _)
RasterCols(image, row, lo, hi, line) ==
    IF hi <= lo THEN line
    ELSE IF hi = lo + 1 THEN RasterCol(image, row, lo, line)
    ELSE LET mid == (lo + hi) \div 2
             first == RasterCols(image, row, lo, mid, line)
         IN IF Len(first) = RASTER_LINE_LENGTH
                THEN RasterCols(image, row, mid, hi, first)
                ELSE first

rasterize_image_to_ql_tiff(image) ==
    [r \in 1..image.height |->
        RasterCols(image, r - 1, 0, HEAD_WIDTH, Zeros(RASTER_LINE_LENGTH))]

\* dither_luma8_image: the ColorMap BlackAndWhite
index_of(color) == IF color < 255 \div 2 THEN 0 ELSE 1

map_color(color) == IF color < 255 \div 2 THEN 0 ELSE 255

lookup(index) ==
    CASE index = 0 -> Some(0)
      [] index = 1 -> Some(255)
      [] OTHER -> None

\* Gray images of h rows and h columns, row r black in column r only: the
\* lines of the encoding differ pairwise.
GrayImage(h) ==
    [width |-> h, height |-> h,
     px |-> [r \in 1..h |-> [c \in 1..h |-> IF c = r THEN 0 ELSE 255]]]

GrayImages == {GrayImage(h) : h \in 1..MaxLines}

----------------------------------------------------------------------------
(* Print state machine: the pure parts *)

\* read_loop, the arms of `match state` on a frame read() returned: the new
\* state, and whether the loop continues (TRUE) or returns (FALSE)
Errored == [state |-> "Errored", continue |-> FALSE]

from_waiting(frame) ==
    IF frame.phase_type = "PrintingState"
        THEN [state |-> "PrintingStarted", continue |-> TRUE]
        ELSE Errored

from_printing_started(frame) ==
    IF frame.status_type = "PrintingCompleted"
        THEN [state |-> "PrintingFinished", continue |-> TRUE]
    ELSE IF frame.status_type = "Notification"
            /\ frame.notification = "CoolingStarted"
        THEN [state |-> "Cooling", continue |-> TRUE]
        ELSE Errored

\* a plausible slip: `continue` where the source has `return`
from_printing_finished_continues(frame) ==
    IF frame.status_type = "PhaseChange"
        THEN [state |-> "Waiting", continue |-> TRUE]
        ELSE Errored

from_printing_finished(frame) ==
    IF frame.status_type = "PhaseChange"
        THEN [state |-> "Waiting", continue |-> FALSE]
        ELSE Errored

\* a plausible slip: `continue` where the source has `return`
from_cooling_continues(frame) ==
    IF frame.status_type = "Notification"
            /\ frame.notification = "CoolingFinished"
        THEN [state |-> "PrintingStarted", continue |-> TRUE]
        ELSE Errored

from_cooling(frame) ==
    IF frame.status_type = "Notification"
            /\ frame.notification = "CoolingFinished"
        THEN [state |-> "PrintingStarted", continue |-> FALSE]
        ELSE Errored

\* one pass of the loop of read_loop on the value r that read() returned
read_loop_step(st, r) ==
    IF ~r.ok THEN Errored
    ELSE CASE st = "Waiting" -> from_waiting(r.val)
           [] st = "PrintingStarted" -> from_printing_started(r.val)
           [] st = "PrintingFinished" -> from_printing_finished(r.val)
           [] st = "Cooling" -> from_cooling(r.val)
           [] OTHER -> [state |-> st, continue |-> FALSE]

\* a plausible slip: the phase of the status reply not looked at
phase_not_checked(response) == response.phase_type = response.phase_type

\* cmd_print, `let PhaseType::WaitingToReceive = status.phase_type else`
phase_is_waiting(response) == response.phase_type = "WaitingToReceive"

\* a plausible slip: the two integer arguments taken in the other order
control_codes_swapped(media, num_lines, cut_each) ==
    [Info_new(media, cut_each) EXCEPT !.cut_each = num_lines]

\* cmd_control_codes: the job descriptor it serializes
control_codes(media, num_lines, cut_each) ==
    [Info_new(media, num_lines) EXCEPT !.cut_each = cut_each]

\* a plausible slip: the length byte left out of the raster command
raster_command_without_length(line) == <<103, 0>> \o line

\* cmd_print, the raster command of one line
raster_command(line) == <<103, 0, RASTER_LINE_LENGTH>> \o line

\* a plausible slip: the state read_loop left not looked at
line_done_unchecked(st) == st = st

\* cmd_print, after a failed line write and the read_loop that followed:
\* TRUE when the `'line` loop is left for the next line, FALSE when cmd_print
\* returns the cooldown error.  The loop body ends in `break 'line`.
line_done_after_cooldown(st) == st = "PrintingStarted"

\* a plausible slip: a copy still printing taken for verified
copy_verified_while_printing(st) == st \in {"Waiting", "PrintingStarted"}

\* cmd_print, `let State::Waiting = state else` after the read_loop that
\* follows the terminator
copy_verified(st) == st = "Waiting"

\* a plausible slip: the copy being printed not counted
terminator_off_by_one(copies_, printed) ==
    IF copies_ > printed THEN <<12>> ELSE <<26>>

\* cmd_print, the byte written after the last line of a copy
terminator(copies_, printed) == IF copies_ > printed + 1 THEN <<12>> ELSE <<26>>

\* a plausible slip: the read_loop call that verifies the copy left out
after_terminator_unverified == "verify_check"

\* cmd_print, after the terminator was written: `self.read_loop(&mut state)`
after_terminator == "verify_read"

\* a plausible slip: `>` for `>=`
copies_done_one_late(printed, copies_) == printed > copies_

\* cmd_print, `if printed_copies >= copies { break; }`
copies_done(printed, copies_) == printed >= copies_

STATUS_REQUEST == <<27, 105, 83>>

----------------------------------------------------------------------------
(* Print state machine: print_image as a process *)

NoStatus ==
    [model |-> "", status_type |-> "", errors |-> <<>>,
     media |-> [media_type |-> "None", width |-> 0, length |-> 0],
     phase_type |-> "", notification |-> ""]
NoRead == [made |-> FALSE, bulk |-> BulkOk(<<>>), parsed |-> FALSE]
NoResult == [tag |-> "None", val |-> [kind |-> "None", msg |-> "", detail |-> ""]]
Returned(r) == [tag |-> IF r.ok THEN "Ok" ELSE "Err", val |-> r.val]
Panicked(msg) == [tag |-> "Panic", val |-> [kind |-> "Panic", msg |-> msg, detail |-> ""]]

\* the call of a function on its own, not part of print_image
NoArg == <<>>
NoRet == [made |-> FALSE]
call == <<arg, ret>>

Init ==
    /\ pc = "idle"
    /\ copies = 0
    /\ lines = <<>>
    /\ status = NoStatus
    /\ state = "Unset"
    /\ printed_copies = 0
    /\ line_idx = 0
    /\ wlog = <<>>
    /\ last_read = NoRead
    /\ rl_reads = <<>>
    /\ rl_path = <<>>
    /\ cover_seen = FALSE
    /\ result = NoResult
    /\ arg = NoArg /\ ret = NoRet

Failed(log) == {i \in 1..Len(log) : log[i].res # "Ok"}

\* outcomes of handle.write_bulk; the model lets at most MaxFails writes fail
WriteOutcomes ==
    {"Ok"} \cup (IF Cardinality(Failed(wlog)) < MaxFails THEN UsbErrors ELSE {})

Written(data, res) == Append(wlog, [data |-> data, res |-> res])

ReadMade(bulk) == [made |-> TRUE, bulk |-> bulk, parsed |-> read_parses(bulk)]

trace == <<rl_reads, last_read>>

\* print_image is called
PrintImage ==
    /\ pc = "idle"
    /\ \E c \in 0..MaxCopies : copies' = c
    /\ pc' = "get_status_write"
    /\ UNCHANGED <<lines, status, state, printed_copies, line_idx, wlog,
                   rl_path, cover_seen, result, trace, call>>

\* get_status: write(&status_command)?
GetStatusWrite ==
    /\ pc = "get_status_write"
    /\ \E res \in WriteOutcomes :
        /\ wlog' = Written(STATUS_REQUEST, res)
        /\ IF res = "Ok"
            THEN pc' = "get_status_read" /\ result' = result
            ELSE pc' = "done" /\ result' = Returned(Err(UsbError(res)))
    /\ UNCHANGED <<copies, lines, status, state, printed_copies, line_idx,
                   rl_path, cover_seen, trace, call>>

\* get_status: self.read(), then print_image up to the call of cmd_print:
\* to_label's expect, and the resize / grayscale / dither / rasterize
\* pipeline, whose gray image is any of GrayImages
GetStatusRead ==
    /\ pc = "get_status_read"
    /\ \E bulk \in BulkReads :
        IF read_retries(bulk)
            THEN UNCHANGED <<pc, result, lines>>
            ELSE LET r == read(bulk) IN
                 IF ~r.ok
                    THEN pc' = "done" /\ result' = Returned(r) /\ lines' = lines
                 ELSE IF to_label(r.val.media) = None
                    THEN /\ pc' = "done"
                         /\ result' = Panicked("Printer reported invalid label dimensions")
                         /\ lines' = lines
                 ELSE /\ pc' = "invalidate"
                      /\ result' = result
                      /\ \E img \in GrayImages :
                            lines' = rasterize_image_to_ql_tiff(img)
    /\ UNCHANGED <<copies, status, state, printed_copies, line_idx, wlog,
                   rl_path, cover_seen, trace, call>>

\* a plausible slip: `break` in the arm of the errors other than Busy
after_invalidate_gives_up(res) ==
    IF res = "Busy" THEN "invalidate" ELSE "initialize"

\* cmd_invalidate, the arms of `match self.write(..)`: Ok breaks out of the
\* loop (cmd_print goes on to cmd_initialize), Busy sleeps and continues, any
\* other error is printed and the loop goes round again
after_invalidate(res) ==
    IF res = "Ok" THEN "initialize" ELSE "invalidate"

\* cmd_invalidate: one pass of its loop
CmdInvalidate ==
    /\ pc = "invalidate"
    /\ \E res \in WriteOutcomes :
        /\ wlog' = Written(Zeros(INVALIDATE_LENGTH), res)
        /\ pc' = after_invalidate(res)
    /\ UNCHANGED <<copies, lines, status, state, printed_copies, line_idx,
                   rl_path, cover_seen, result, trace, call>>

\* cmd_initialize
CmdInitialize ==
    /\ pc = "initialize"
    /\ \E res \in WriteOutcomes :
        /\ wlog' = Written(Zeros(INVALIDATE_LENGTH), res)
        /\ IF res = "Ok"
            THEN pc' = "status_write" /\ result' = result
            ELSE pc' = "done" /\ result' = Returned(Err(UsbError(res)))
    /\ UNCHANGED <<copies, lines, status, state, printed_copies, line_idx,
                   rl_path, cover_seen, trace, call>>

\* cmd_status_request: the write; called by cmd_print and, after it, by
\* print_image
CmdStatusRequestWrite ==
    /\ pc \in {"status_write", "final_status_write"}
    /\ \E res \in WriteOutcomes :
        /\ wlog' = Written(STATUS_REQUEST, res)
        /\ IF res = "Ok"
            THEN /\ pc' = IF pc = "status_write" THEN "status_read"
                                                 ELSE "final_status_read"
                 /\ result' = result
            ELSE pc' = "done" /\ result' = Returned(Err(UsbError(res)))
    /\ UNCHANGED <<copies, lines, status, state, printed_copies, line_idx,
                   rl_path, cover_seen, trace, call>>

\* cmd_status_request: one pass of its polling loop, `elapsed` telling
\* whether Instant::now() > start + TIMEOUTS.general after the read; then the
\* caller: cmd_print binds the response to `status`, checks its phase and
\* sets up its loop; print_image returns the response
CmdStatusRequestReadOn(traced) ==
    /\ pc \in {"status_read", "final_status_read"}
    /\ \E bulk \in BulkReads, elapsed \in BOOLEAN :
        /\ last_read' = IF traced THEN ReadMade(bulk) ELSE last_read
        /\ IF read_retries(bulk)
               THEN UNCHANGED <<pc, result, status, state, printed_copies>>
               ELSE LET r == read(bulk) IN
                    IF elapsed
                       THEN /\ pc' = "done"
                            /\ result' = Returned(Err(UsbError("Timeout")))
                            /\ UNCHANGED <<status, state, printed_copies>>
                    ELSE IF ~r.ok /\ r.val = UsbError("Timeout")
                       THEN UNCHANGED <<pc, result, status, state, printed_copies>>
                    ELSE IF ~r.ok
                       THEN /\ pc' = "done"
                            /\ result' = Returned(r)
                            /\ UNCHANGED <<status, state, printed_copies>>
                    ELSE IF pc = "final_status_read"
                       THEN /\ pc' = "done"
                            /\ result' = Returned(r)
                            /\ UNCHANGED <<status, state, printed_copies>>
                    ELSE IF ~phase_is_waiting(r.val)
                       THEN /\ pc' = "done"
                            /\ result' = Returned(Err(PrinterErr("printer in invalid phase", "")))
                            /\ status' = r.val
                            /\ UNCHANGED <<state, printed_copies>>
                    ELSE /\ pc' = "header"
                         /\ status' = r.val
                         /\ state' = "Waiting"
                         /\ printed_copies' = 0
                         /\ result' = result
    /\ UNCHANGED <<copies, lines, line_idx, wlog, rl_path, cover_seen,
                   rl_reads, call>>

CmdStatusRequestRead == CmdStatusRequestReadOn(FALSE)

\* cmd_control_codes, called at the top of the copy loop with cut_each = 1
CmdControlCodes ==
    /\ pc = "header"
    /\ LET info == control_codes(status.media, Len(lines), 1) IN
        IF serialize_panics(info)
            THEN /\ pc' = "done"
                 /\ result' = Panicked(serialize_panic_message(info))
                 /\ UNCHANGED <<wlog, line_idx>>
            ELSE \E res \in WriteOutcomes :
                 /\ wlog' = Written(serialize(info), res)
                 /\ IF res = "Ok"
                     THEN /\ pc' = IF Len(lines) = 0 THEN "terminator" ELSE "line"
                          /\ line_idx' = 1
                          /\ result' = result
                     ELSE /\ pc' = "done"
                          /\ result' = Returned(Err(UsbError(res)))
                          /\ line_idx' = line_idx
    /\ UNCHANGED <<copies, lines, status, state, printed_copies, rl_path,
                   cover_seen, trace, call>>

\* where cmd_print goes after `break 'line`: the next line, or the terminator
AfterLine ==
    /\ line_idx' = line_idx + 1
    /\ pc' = IF line_idx + 1 > Len(lines) THEN "terminator" ELSE "line"

\* cmd_print: one pass of `'line: loop` up to its write of the raster command
WriteLine ==
    /\ pc = "line"
    /\ IF state \notin {"Waiting", "PrintingStarted"}
        THEN /\ pc' = "done"
             /\ result' = Returned(Err(PrinterErr(
                    "unexpected status at start of line print: ", state)))
             /\ UNCHANGED <<wlog, line_idx, rl_path>>
        ELSE \E res \in WriteOutcomes :
             /\ wlog' = Written(raster_command(lines[line_idx]), res)
             /\ result' = result
             /\ IF res = "Ok"
                 THEN AfterLine /\ rl_path' = rl_path
                 ELSE /\ pc' = "cooldown_read"
                      /\ rl_path' = <<state>>
                      /\ line_idx' = line_idx
    /\ UNCHANGED <<copies, lines, status, state, printed_copies, cover_seen,
                   trace, call>>

\* read_loop: one read() and the transition it causes.  `traced` records the
\* transfer and what read() returned.
ReadLoopOn(traced) ==
    /\ pc \in {"cooldown_read", "verify_read"}
    /\ \E bulk \in BulkReads :
        /\ last_read' = IF traced THEN ReadMade(bulk) ELSE last_read
        /\ IF read_retries(bulk)
            THEN UNCHANGED <<pc, state, rl_reads, rl_path, cover_seen>>
            ELSE LET r == read(bulk)
                     step == read_loop_step(state, r) IN
                 /\ state' = step.state
                 /\ rl_reads' = IF traced THEN Append(rl_reads, r) ELSE rl_reads
                 /\ rl_path' = Append(rl_path, step.state)
                 /\ cover_seen' = (cover_seen \/ HasFlag(At(Buffer(bulk.data), 9), 16))
                 /\ pc' = IF step.continue THEN pc
                          ELSE IF pc = "cooldown_read" THEN "cooldown_check"
                          ELSE "verify_check"
    /\ UNCHANGED <<copies, lines, status, printed_copies, line_idx, wlog,
                   result, call>>

ReadLoop == ReadLoopOn(FALSE)

\* cmd_print: the check after the read_loop of a failed line write
CooldownCheck ==
    /\ pc = "cooldown_check"
    /\ IF line_done_after_cooldown(state)
        THEN AfterLine /\ result' = result
        ELSE /\ pc' = "done"
             /\ result' = Returned(Err(PrinterErr(
                    "unexpected state during cooldown: ", state)))
             /\ line_idx' = line_idx
    /\ rl_path' = <<>>
    /\ UNCHANGED <<copies, lines, status, state, printed_copies, wlog,
                   cover_seen, trace, call>>

\* cmd_print: the terminator of a copy
WriteTerminator ==
    /\ pc = "terminator"
    /\ \E res \in WriteOutcomes :
        /\ wlog' = Written(terminator(copies, printed_copies), res)
        /\ IF res = "Ok"
            THEN /\ pc' = after_terminator
                 /\ rl_path' = <<state>>
                 /\ result' = result
            ELSE /\ pc' = "done"
                 /\ result' = Returned(Err(UsbError(res)))
                 /\ rl_path' = rl_path
    /\ UNCHANGED <<copies, lines, status, state, printed_copies, line_idx,
                   cover_seen, trace, call>>

\* cmd_print: the check after the read_loop of a terminator, to the top of
\* the next copy or out of the loop to print_image's status request
VerifyCheck ==
    /\ pc = "verify_check"
    /\ IF copy_verified(state)
        THEN /\ printed_copies' = printed_copies + 1
             /\ pc' = IF copies_done(printed_copies + 1, copies)
                        THEN "final_status_write" ELSE "header"
             /\ result' = result
        ELSE /\ pc' = "done"
             /\ result' = Returned(Err(PrinterErr(
                    "unexpected state during verification: ", state)))
             /\ printed_copies' = printed_copies
    /\ rl_path' = <<>>
    /\ UNCHANGED <<copies, lines, status, state, line_idx, wlog, cover_seen,
                   trace, call>>

Next ==
    \/ PrintImage
    \/ GetStatusWrite
    \/ GetStatusRead
    \/ CmdInvalidate
    \/ CmdInitialize
    \/ CmdStatusRequestWrite
    \/ CmdStatusRequestRead
    \/ CmdControlCodes
    \/ WriteLine
    \/ ReadLoop
    \/ CooldownCheck
    \/ WriteTerminator
    \/ VerifyCheck

Spec == Init /\ [][Next]_vars

\* print_image up to the copy loop of cmd_print, with the scheduling of
\* cmd_invalidate: its `loop` always goes round again (after a sleep of
\* 100 ms on Busy), so a pass that can be made is made.  The transport
\* accepts a write at the latest once MaxFails writes have failed.
NextInvalidate ==
    \/ PrintImage
    \/ GetStatusWrite
    \/ GetStatusRead
    \/ CmdInvalidate
    \/ CmdInitialize
    \/ CmdStatusRequestWrite
    \/ CmdStatusRequestRead

SpecInvalidate == Init /\ [][NextInvalidate]_vars /\ WF_vars(CmdInvalidate)

----------------------------------------------------------------------------
(* read_loop on its own, with the transfers recorded.  The initial states   *)
(* are states of Spec in which cmd_print calls read_loop during a one-line, *)
(* one-copy job: after the terminator, after a failed write of the line,    *)
(* and after the terminator of a copy that went through a cooling pause.    *)

JobStatus == interpret_response(FReplyWaiting).val
JobLines == rasterize_image_to_ql_tiff(GrayImage(1))
JobHeader == serialize([Info_new(JobStatus.media, 1) EXCEPT !.cut_each = 1])

Sent(data) == [data |-> data, res |-> "Ok"]

LogToHeader ==
    <<Sent(STATUS_REQUEST), Sent(Zeros(INVALIDATE_LENGTH)),
      Sent(Zeros(INVALIDATE_LENGTH)), Sent(STATUS_REQUEST), Sent(JobHeader)>>

ReadLoopEntries ==
    {[pc |-> "verify_read", state |-> "Waiting", line_idx |-> 2,
      wlog |-> LogToHeader \o <<Sent(raster_command(JobLines[1])), Sent(<<26>>)>>],
     [pc |-> "cooldown_read", state |-> "Waiting", line_idx |-> 1,
      wlog |-> Append(LogToHeader,
                 [data |-> raster_command(JobLines[1]), res |-> "Timeout"])],
     [pc |-> "verify_read", state |-> "PrintingStarted", line_idx |-> 2,
      wlog |-> LogToHeader \o
                 <<[data |-> raster_command(JobLines[1]), res |-> "Timeout"],
                   Sent(<<26>>)>>]}

InitReadLoop ==
    \E e \in ReadLoopEntries :
        /\ pc = e.pc
        /\ copies = 1
        /\ lines = JobLines
        /\ status = JobStatus
        /\ state = e.state
        /\ printed_copies = 0
        /\ line_idx = e.line_idx
        /\ wlog = e.wlog
        /\ last_read = NoRead
        /\ rl_reads = <<>>
        /\ rl_path = <<e.state>>
        /\ cover_seen = FALSE
        /\ result = NoResult
        /\ arg = NoArg /\ ret = NoRet

ReadLoopTraced == ReadLoopOn(TRUE)

SpecReadLoop == InitReadLoop /\ [][ReadLoopTraced]_vars

\* read_loop with the transfers recorded, followed by what cmd_print and
\* print_image do once it has returned (same initial states)
NextReadLoopReturn ==
    \/ ReadLoopTraced
    \/ CooldownCheck
    \/ VerifyCheck
    \/ WriteTerminator
    \/ CmdStatusRequestWrite
    \/ CmdStatusRequestRead

SpecReadLoopReturn == InitReadLoop /\ [][NextReadLoopReturn]_vars

\* cmd_status_request on its own, with the transfers recorded.  The initial
\* states are states of Spec in which it is called: by cmd_print after
\* invalidate and initialize, and by print_image after a one-line, one-copy
\* job.
StatusRequestEntries ==
    {[pc |-> "status_write", copies |-> c, lines |-> rasterize_image_to_ql_tiff(img),
      status |-> NoStatus, state |-> "Unset", printed_copies |-> 0, line_idx |-> 0,
      wlog |-> <<Sent(STATUS_REQUEST), Sent(Zeros(INVALIDATE_LENGTH)),
                 Sent(Zeros(INVALIDATE_LENGTH))>>] :
        c \in 0..MaxCopies, img \in GrayImages}
    \cup
    {[pc |-> "final_status_write", copies |-> 1, lines |-> JobLines,
      status |-> JobStatus, state |-> "Waiting", printed_copies |-> 1, line_idx |-> 2,
      wlog |-> LogToHeader \o <<Sent(raster_command(JobLines[1])), Sent(<<26>>)>>]}

InitStatusRequest ==
    \E e \in StatusRequestEntries :
        /\ pc = e.pc
        /\ copies = e.copies
        /\ lines = e.lines
        /\ status = e.status
        /\ state = e.state
        /\ printed_copies = e.printed_copies
        /\ line_idx = e.line_idx
        /\ wlog = e.wlog
        /\ last_read = NoRead
        /\ rl_reads = <<>>
        /\ rl_path = <<>>
        /\ cover_seen = FALSE
        /\ result = NoResult
        /\ arg = NoArg /\ ret = NoRet

CmdStatusRequestReadTraced == CmdStatusRequestReadOn(TRUE)

NextStatusRequest == CmdStatusRequestWrite \/ CmdStatusRequestReadTraced

SpecStatusRequest == InitStatusRequest /\ [][NextStatusRequest]_vars

\* Spec reaches each entry of ReadLoopEntries
EntryInSpec(e) ==
    /\ pc = e.pc /\ copies = 1 /\ lines = JobLines /\ status = JobStatus
    /\ state = e.state /\ printed_copies = 0 /\ line_idx = e.line_idx
    /\ wlog = e.wlog /\ rl_path = <<e.state>> /\ ~cover_seen
    /\ result = NoResult

----------------------------------------------------------------------------
(* Functions called on their own: the argument is drawn by the initial     *)
(* state and the one action of the specification applies the function.     *)

process == <<pc, copies, lines, status, state, printed_copies, line_idx, wlog,
             last_read, rl_reads, rl_path, cover_seen, result>>

\* no print_image call is under way
Idle ==
    /\ pc = "idle"
    /\ copies = 0
    /\ lines = <<>>
    /\ status = NoStatus
    /\ state = "Unset"
    /\ printed_copies = 0
    /\ line_idx = 0
    /\ wlog = <<>>
    /\ last_read = NoRead
    /\ rl_reads = <<>>
    /\ rl_path = <<>>
    /\ cover_seen = FALSE
    /\ result = NoResult

Called(v) == [made |-> TRUE, val |-> v]

\* byte values put into a frame: the values interpret_response accepts
\* somewhere, their neighbours, and the extremes
SampleBytes ==
    {0, 1, 2, 3, 4, 5, 6, 7, 8, 9, 10, 11, 12, 32, 47, 48, 49, 52, 53, 55, 56,
     57, 63, 66, 74, 75, 76, 119, 127, 128, 255}

\* every byte 0..255 as error information 1 and, with a few values of the
\* other byte, as error information 2
ErrorBytePairs ==
    {<<a, b>> : a \in 0..255, b \in {0, 16, 255}}
    \cup {<<a, b>> : a \in {0, 8, 255}, b \in 0..255}

BaseFrames == {FReplyWaiting, FCoolingStarted, FReplyDieCut, FPhaseCoverOpen}

\* frames handed to interpret_response: a base frame with one byte replaced,
\* or with its two error bytes replaced
CodecFrames ==
    {[f EXCEPT ![p] = v] : f \in BaseFrames, p \in 1..PRINTER_STATUS_SIZE,
                           v \in SampleBytes}
    \cup {[f EXCEPT ![9] = e[1], ![10] = e[2]] :
                f \in {FReplyWaiting, FReplyBadMedia}, e \in ErrorBytePairs}

InitInterpret == Idle /\ arg \in CodecFrames /\ ret = NoRet

InterpretResponse ==
    /\ ret = NoRet
    /\ ret' = Called(interpret_response(arg))
    /\ UNCHANGED <<process, arg>>

SpecInterpret == InitInterpret /\ [][InterpretResponse]_vars

\* job::Info values handed to serialize: media that resolve in the
\* catalogue, media that do not, and no media
JobMedia ==
    {[media_type |-> t, width |-> w, length |-> l] :
        t \in {"ContinuousTape", "DieCutLabels", "None"},
        w \in {62, 29, 99}, l \in {0, 90}}

JobLineCounts == {0, 1, 255, 256, 65535, 65536, 16777216, 2147483647}

JobInfos ==
    {[media |-> m, num_lines |-> n, page |-> p, prioritize_quality |-> q,
      cut_each |-> c, auto_cut |-> a, cut_at_end |-> e, high_resolution |-> h] :
        m \in JobMedia, n \in JobLineCounts, p \in {"Starting", "Other"},
        q \in BOOLEAN, c \in {0, 1, 255}, a \in BOOLEAN, e \in BOOLEAN,
        h \in BOOLEAN}

InitSerialize == Idle /\ arg \in JobInfos /\ ret = NoRet

Serialize ==
    /\ ret = NoRet
    /\ ret' = IF serialize_panics(arg)
                THEN Called(Panicked(serialize_panic_message(arg)))
                ELSE Called([tag |-> "Ok", val |-> serialize(arg)])
    /\ UNCHANGED <<process, arg>>

SpecSerialize == InitSerialize /\ [][Serialize]_vars

\* GrayImages handed to rasterize_image_to_ql_tiff
MaxHeight == 2

RasterWidths == {1, 2, 8, 9, 17, 719, 720, 721, 725}

\* white but for one black pixel at column c, row r
OnePixelImage(w, h, c, r) ==
    [width |-> w, height |-> h,
     px |-> [y \in 1..h |-> [x \in 1..w |->
                IF x = c + 1 /\ y = r + 1 THEN 0 ELSE 255]]]

Lumas == <<0, 127, 128, 255, 1, 126, 129, 254>>

\* the luma values of Lumas laid out from offset k on, row after row
PatternImage(w, h, k) ==
    [width |-> w, height |-> h,
     px |-> [y \in 1..h |-> [x \in 1..w |->
                Lumas[((x + 3 * y + k) % Len(Lumas)) + 1]]]]

RasterImages ==
    {OnePixelImage(w, h, c, r) :
        w \in RasterWidths, h \in 1..MaxHeight,
        c \in {0, 1, 7, 8, 16, 712, 718, 719, 720}, r \in 0..(MaxHeight - 1)}
    \cup {PatternImage(w, h, k) :
        w \in RasterWidths, h \in 1..MaxHeight, k \in 0..3}

InitRasterize == Idle /\ arg \in RasterImages /\ ret = NoRet

Rasterize ==
    /\ ret = NoRet
    /\ ret' = Called(rasterize_image_to_ql_tiff(arg))
    /\ UNCHANGED <<process, arg>>

SpecRasterize == InitRasterize /\ [][Rasterize]_vars

\* the palette of dither_luma8_image applied to one luma value
InitPalette == Idle /\ arg \in 0..255 /\ ret = NoRet

MapColor ==
    /\ ret = NoRet
    /\ ret' = Called([index |-> index_of(arg), color |-> map_color(arg),
                      entry |-> lookup(index_of(arg))])
    /\ UNCHANGED <<process, arg>>

SpecPalette == InitPalette /\ [][MapColor]_vars

----------------------------------------------------------------------------
(* Constructor: ThermalPrinter::new.  A device is the interfaces of its    *)
(* active configuration; an interface is its descriptors (alternate        *)
(* settings); a descriptor is its endpoints.                               *)

MaxInterfaces == 2
MaxAlternates == 2

\* PrinterError::Device(msg)
DeviceErr(msg) == [kind |-> "Device", msg |-> msg, detail |-> ""]

Endpoint(type, dir, address) ==
    [transfer_type |-> type, direction |-> dir, address |-> address]

BulkIn == Endpoint("Bulk", "In", 129)
BulkOut == Endpoint("Bulk", "Out", 2)

EndpointLists ==
    {<<>>, <<BulkIn>>, <<BulkOut>>, <<BulkIn, BulkOut>>, <<BulkOut, BulkIn>>,
     <<BulkIn, BulkOut, Endpoint("Interrupt", "In", 131)>>,
     <<Endpoint("Interrupt", "In", 131), BulkIn, BulkOut>>,
     <<BulkIn, Endpoint("Bulk", "In", 132), BulkOut>>}

\* sequences of 0 .. n elements, the first of First and the others of Rest
FirstThenRest(First, Rest, n) ==
    {<<>>} \cup
    UNION {{<<f>> \o r : f \in First, r \in [1..(k - 1) -> Rest]} : k \in 1..n}

Interfaces ==
    FirstThenRest(EndpointLists, {<<>>, <<BulkIn, BulkOut>>}, MaxAlternates)

Devices ==
    FirstThenRest(Interfaces, {<<>>, << <<BulkIn, BulkOut>> >>}, MaxInterfaces)

\* the rusb call of new that fails, if one does ("get_status_frame": the
\* status probe reads a frame that interpret_response rejects), and what
\* kernel_driver_active returns
FailPoints ==
    {"none", "open", "active_config_descriptor", "detach_kernel_driver",
     "claim_interface", "device_descriptor", "read_strings", "write_clear",
     "write_initialize", "get_status_write", "get_status_read",
     "get_status_frame"}
KernelDriver == {"Err", "Active", "Inactive"}

\* the addresses the endpoint loop leaves in in_endpoint / out_endpoint
RECURSIVE LastAddress(_, _, _)
LastAddress(endpoints, dir, found) ==
    IF endpoints = <<>> THEN found
    ELSE LastAddress(Tail(endpoints), dir,
            IF Head(endpoints).direction = dir
                THEN Some(Head(endpoints).address) ELSE found)

\* how a call of new ended: its result, whether claim_interface succeeded,
\* the writes it issued and the number of calls of read() it made
Outcome(r, claimed, writes, reads) ==
    [result |-> r, claimed |-> claimed, writes |-> writes, reads |-> reads]

\* a plausible slip: the 400 zero bytes cmd_initialize sends
initialize_command_of_cmd_initialize == Zeros(INVALIDATE_LENGTH)

\* new, `let initialize_command = [0x1B, 0x40]`
initialize_command == <<27, 64>>

CLEAR_COMMAND_LENGTH == 200

\* `if in_endpoint.is_none() || out_endpoint.is_none()`
endpoints_missing(endpoints) ==
    \/ LastAddress(endpoints, "In", None) = None
    \/ LastAddress(endpoints, "Out", None) = None

\* ThermalPrinter::new
new(device, kd, fail) ==
    LET usb == Err(UsbError("Io"))
        clear == [data |-> Zeros(CLEAR_COMMAND_LENGTH),
                  res |-> IF fail = "write_clear" THEN "Io" ELSE "Ok"]
        init == [data |-> initialize_command,
                 res |-> IF fail = "write_initialize" THEN "Io" ELSE "Ok"]
        stat == [data |-> STATUS_REQUEST,
                 res |-> IF fail = "get_status_write" THEN "Io" ELSE "Ok"]
    IN
    IF fail \in {"open", "active_config_descriptor"} THEN Outcome(usb, FALSE, <<>>, 0)
    ELSE IF device = <<>> THEN
        Outcome(Err(DeviceErr("Brother QL printers should have exactly one interface")),
                FALSE, <<>>, 0)
    ELSE IF device[1] = <<>> THEN
        Outcome(Err(DeviceErr("Brother QL printers should have exactly one interface descriptor")),
                FALSE, <<>>, 0)
    ELSE LET endpoints == device[1][1] IN
    IF \E i \in 1..Len(endpoints) : endpoints[i].transfer_type # "Bulk" THEN
        Outcome(Err(DeviceErr("Brother QL printers are defined as using only bulk endpoint communication")),
                FALSE, <<>>, 0)
    ELSE IF endpoints_missing(endpoints) THEN
        Outcome(Err(DeviceErr("Input or output endpoint not found")), FALSE, <<>>, 0)
    ELSE IF kd = "Active" /\ fail = "detach_kernel_driver" THEN Outcome(usb, FALSE, <<>>, 0)
    ELSE IF fail = "claim_interface" THEN Outcome(usb, FALSE, <<>>, 0)
    ELSE IF fail \in {"device_descriptor", "read_strings"} THEN Outcome(usb, TRUE, <<>>, 0)
    ELSE IF fail = "write_clear" THEN Outcome(usb, TRUE, <<clear>>, 0)
    ELSE IF fail = "write_initialize" THEN Outcome(usb, TRUE, <<clear, init>>, 0)
    ELSE IF fail = "get_status_write" THEN Outcome(usb, TRUE, <<clear, init, stat>>, 0)
    ELSE IF fail = "get_status_read" THEN Outcome(usb, TRUE, <<clear, init, stat>>, 1)
    ELSE IF fail = "get_status_frame" THEN
        Outcome(read(BulkOk(FReplyBadMedia)), TRUE, <<clear, init, stat>>, 1)
    ELSE Outcome(Ok([in_endpoint |-> LastAddress(endpoints, "In", None)[1],
                     out_endpoint |-> LastAddress(endpoints, "Out", None)[1]]),
                 TRUE, <<clear, init, stat>>, 1)

InitNew ==
    /\ Idle
    /\ arg \in [device : Devices, kd : KernelDriver, fail : FailPoints]
    /\ ret = NoRet

\* ThermalPrinter::new called on a device
New ==
    /\ ret = NoRet
    /\ ret' = Called(new(arg.device, arg.kd, arg.fail))
    /\ wlog' = ret'.val.writes
    /\ UNCHANGED <<pc, copies, lines, status, state, printed_copies, line_idx,
                   last_read, rl_reads, rl_path, cover_seen, result, arg>>

SpecNew == InitNew /\ [][New]_vars

----------------------------------------------------------------------------
(* Properties *)

IsRaster(e) == Len(e.data) = 93 /\ SubSeq(e.data, 1, 3) = <<103, 0, 90>>
IsHeader(e) == Len(e.data) = 30 /\ SubSeq(e.data, 1, 3) = <<27, 105, 122>>
IsTerminator(e) == e.data = <<12>> \/ e.data = <<26>>

\* index in wlog of the header of the copy being sent (0 before any header)
LastHeader == LET H == {i \in 1..Len(wlog) : IsHeader(wlog[i])}
              IN IF H = {} THEN 0 ELSE CHOOSE i \in H : \A j \in H : j <= i

IsSentRaster(e) == IsRaster(e) /\ e.res = "Ok"

\* the raster commands the device accepted for the copy being sent
SentLinesOfCopy ==
    SelectSeq(SubSeq(wlog, LastHeader + 1, Len(wlog)), IsSentRaster)

AllLines == [i \in 1..Len(lines) |-> <<103, 0, 90>> \o lines[i]]

OnlyTimeouts == \A i \in Failed(wlog) : wlog[i].res = "Timeout"

\* C1: when a line write times out and read_loop then sees the cooling pause
\* through (CoolingStarted, CoolingFinished, ending in PrintingStarted), the
\* same line is written again before the next one; so when cmd_print reaches
\* the terminator of a copy, every encoded line of that copy has been
\* accepted by the device, in order.  (Stated for jobs whose only write
\* failures are timeouts.)
C1_LinesAllWritten ==
    (pc = "terminator" /\ OnlyTimeouts) =>
        [i \in 1..Len(SentLinesOfCopy) |-> SentLinesOfCopy[i].data] = AllLines

\* how read_loop's first read of an invocation was classified
IsPhaseChangeToPrinting(r) ==
    r.ok /\ r.val.status_type = "PhaseChange" /\ r.val.phase_type = "PrintingState"
IsPrintingCompleted(r) == r.ok /\ r.val.status_type = "PrintingCompleted"
IsPhaseChange(r) == r.ok /\ r.val.status_type = "PhaseChange"

Returning == pc \in {"cooldown_check", "verify_check"}

\* C2: from Waiting, read_loop advances to PrintingStarted only on a frame of
\* status type PhaseChange with phase PrintingState; any other frame (or a
\* read error) read in Waiting sets Errored and read_loop returns.
C2_WaitingNeedsPhaseChange ==
    (Len(rl_reads) >= 1 /\ rl_path[1] = "Waiting") =>
        IF IsPhaseChangeToPrinting(rl_reads[1])
            THEN rl_path[2] = "PrintingStarted"
            ELSE rl_path = <<"Waiting", "Errored">> /\ Returning

\* the three frames of C3, as far as they have been read
FedCompletion ==
    /\ Len(rl_reads) >= 1 => IsPhaseChangeToPrinting(rl_reads[1])
    /\ Len(rl_reads) >= 2 => IsPrintingCompleted(rl_reads[2])
    /\ Len(rl_reads) >= 3 => IsPhaseChange(rl_reads[3])

\* C3: read_loop entered in Waiting and fed (PhaseChange with phase
\* PrintingState, PrintingCompleted, PhaseChange) goes through
\* PrintingStarted and PrintingFinished, and returns in Waiting on the third
\* frame, having read exactly those three.
C3_CompletionReturnsToWaiting ==
    (rl_path # <<>> /\ rl_path[1] = "Waiting" /\ FedCompletion) =>
        /\ Len(rl_reads) <= 3
        /\ rl_path = SubSeq(<<"Waiting", "PrintingStarted", "PrintingFinished",
                              "Waiting">>, 1, Len(rl_reads) + 1)
        /\ state = rl_path[Len(rl_path)]
        /\ Returning <=> Len(rl_reads) = 3

C3_Witness ==
    /\ Len(rl_reads) = 3 /\ FedCompletion
    /\ rl_path = <<"Waiting", "PrintingStarted", "PrintingFinished", "Waiting">>
    /\ pc = "verify_check"

\* the transition table of the read loop: the frames listed for a state
Listed(st, r) ==
    /\ r.ok
    /\ CASE st = "Waiting" -> IsPhaseChangeToPrinting(r)
         [] st = "PrintingStarted" ->
                \/ r.val.status_type = "PrintingCompleted"
                \/ r.val.notification = "CoolingStarted"
         [] st = "PrintingFinished" -> r.val.status_type = "PhaseChange"
         [] st = "Cooling" -> r.val.notification = "CoolingFinished"
         [] OTHER -> FALSE

\* C4: in each of Waiting, PrintingStarted, PrintingFinished and Cooling, a
\* read error or a frame the transition table does not list sets the state to
\* Errored; and once the state is Errored no further write is issued (the log
\* of writes is still the one read_loop was entered with).
C4_UnlistedFrameErrors ==
    /\ \A i \in 1..Len(rl_reads) :
            ~Listed(rl_path[i], rl_reads[i]) => rl_path[i + 1] = "Errored"
    /\ state = "Errored" => \E e \in ReadLoopEntries : wlog = e.wlog

\* once Errored, cmd_print writes nothing more (holds of Spec)
ErroredStopsWrites == [][state = "Errored" => wlog' = wlog]_vars

Terminators == SelectSeq(wlog, IsTerminator)

\* C5: for copies >= 1, when cmd_print has returned Ok it has written exactly
\* `copies` terminators: 0x0C after every copy but the last and 0x1A after
\* the last, so 0x1A once and as the last of them.
C5_Terminators ==
    (pc = "final_status_write" /\ copies >= 1) =>
        [k \in 1..Len(Terminators) |-> Terminators[k].data[1]]
            = [k \in 1..copies |-> IF k < copies THEN 12 ELSE 26]

C5_Witness ==
    /\ pc = "final_status_write" /\ copies = 2
    /\ Len(Terminators) = 2
    /\ Terminators[1].data = <<12>> /\ Terminators[2].data = <<26>>

OneLineOneCopy == copies = 1 /\ Len(lines) = 1

IsJobHeaderOneLine(d) ==
    /\ Len(d) = 30
    /\ SubSeq(d, 1, 3) = <<27, 105, 122>>
    /\ SubSeq(d, 8, 11) = <<1, 0, 0, 0>>

IsRasterOf(d, line) == Len(d) = 93 /\ d = <<103, 0, 90>> \o line

\* C6 as stated: for a one-line image and copies = 1 the writes are, from the
\* first one on and with nothing before or between them: 400 zero bytes
\* (invalidate), initialize (400 zero bytes), status request 1B 69 53, the
\* 30-byte header, one 93-byte raster command, terminator 1A.
C6_WritesBeginWithInvalidate ==
    (OneLineOneCopy /\ wlog # <<>>) =>
        /\ Len(wlog) <= 6
        /\ \A i \in 1..Len(wlog) :
            CASE i = 1 -> wlog[i].data = Zeros(400)
              [] i = 2 -> wlog[i].data = Zeros(400)
              [] i = 3 -> wlog[i].data = <<27, 105, 83>>
              [] i = 4 -> IsJobHeaderOneLine(wlog[i].data)
              [] i = 5 -> IsRasterOf(wlog[i].data, lines[1])
              [] i = 6 -> wlog[i].data = <<26>>

\* number of failed writes of 400 zero bytes that follow the first write
RECURSIVE InvalidateRetries(_, _)
InvalidateRetries(log, i) ==
    IF i <= Len(log) /\ log[i].data = Zeros(400) /\ log[i].res # "Ok"
        /\ i < Len(log) + (IF pc = "invalidate" THEN 1 ELSE 0)
        /\ (i < Len(log) => log[i + 1].data = Zeros(400))
    THEN 1 + InvalidateRetries(log, i + 1)
    ELSE 0

\* the writes without the failed attempts of cmd_invalidate
WithoutRetries ==
    LET k == InvalidateRetries(wlog, 2)
    IN SubSeq(wlog, 1, 1) \o SubSeq(wlog, k + 2, Len(wlog))

\* C6 amended: for a one-line image and copies = 1 the first write is the
\* status request 1B 69 53 of get_status; after it come, in this order and
\* with no other write between them, the 400 zero bytes of invalidate
\* (written again after each failed attempt), the 400 zero bytes of
\* initialize, the status request, the 30-byte header with num_lines = 1,
\* one 93-byte raster command, the terminator 1A and the final status
\* request.
C6_WritesInOrder ==
    OneLineOneCopy =>
        /\ Len(WithoutRetries) <= 8
        /\ \A i \in 1..Len(WithoutRetries) :
            LET d == WithoutRetries[i].data IN
            CASE i = 1 -> d = <<27, 105, 83>>
              [] i = 2 -> d = Zeros(400)
              [] i = 3 -> d = Zeros(400)
              [] i = 4 -> d = <<27, 105, 83>>
              [] i = 5 -> IsJobHeaderOneLine(d)
              [] i = 6 -> IsRasterOf(d, lines[1])
              [] i = 7 -> d = <<26>>
              [] i = 8 -> d = <<27, 105, 83>>

C6_Witness ==
    /\ OneLineOneCopy /\ pc = "verify_read"
    /\ Len(wlog) = 8 /\ wlog[2].res = "Busy"
    /\ wlog[7].res = "Ok" /\ IsRasterOf(wlog[7].data, lines[1])
    /\ wlog[8] = [data |-> <<26>>, res |-> "Ok"]

\* PrinterError's message holds the text s
Includes(e, s) == e.msg = s \/ e.detail = s

\* C7: when a frame read during the job has byte 9 bit 0x10 (Cover open) set,
\* the state machine ends in Errored and the error print_image returns
\* includes the device's message "Cover open".
C7_CoverOpenReported ==
    (pc = "done" /\ cover_seen) =>
        /\ state = "Errored"
        /\ result.tag = "Err"
        /\ Includes(result.val, "Cover open")

\* C8: a raster line write that fails with an error other than Timeout
\* aborts cmd_print with that error: read_loop is not entered and no further
\* write follows.
C8_OnlyTimeoutAbsorbed ==
    \A i \in Failed(wlog) :
        (IsRaster(wlog[i]) /\ wlog[i].res # "Timeout") =>
            /\ i = Len(wlog)
            /\ pc = "done"
            /\ result = Returned(Err(UsbError(wlog[i].res)))

\* C9: print_image does not panic when the reported (width, length) is not in
\* the catalogue: a call that ends after the status reply of get_status, having
\* written nothing but that request, returns an error value (as
\* current_label does).
C9_UnknownMediaIsAnError ==
    (pc = "done" /\ wlog = <<Sent(<<27, 105, 83>>)>>) => result.tag = "Err"

\* C10: read() hands interpret_response only complete frames: a transfer it
\* parses has 32 bytes and starts with 0x80; a transfer of another length or
\* with another first byte is read again, not parsed.
C10_OnlyWholeFramesParsed ==
    (last_read.made /\ last_read.parsed) =>
        /\ Len(last_read.bulk.data) = 32
        /\ last_read.bulk.data[1] = 128

IsJobWrite(e) == IsHeader(e) \/ IsRaster(e) \/ IsTerminator(e)

\* C11: when the status reply cmd_print obtained after invalidate and
\* initialize reports a phase other than WaitingToReceive, print_image has
\* returned the Printer error "printer in invalid phase" and no job header,
\* raster line or terminator has been written.
C11_InvalidPhaseStopsJob ==
    (status # NoStatus /\ status.phase_type # "WaitingToReceive") =>
        /\ pc = "done"
        /\ result = Returned(Err(PrinterErr("printer in invalid phase", "")))
        /\ \A i \in 1..Len(wlog) : ~IsJobWrite(wlog[i])

C11_Witness ==
    /\ pc = "done"
    /\ status # NoStatus /\ status.phase_type = "PrintingState"
    /\ Len(wlog) = 4 /\ wlog[4] = Sent(STATUS_REQUEST)
    /\ result.tag = "Err" /\ result.val.kind = "Printer"

MediaTypeBytes == {0, 10, 74, 11, 75}

\* print_image returned Err(e)
ReturnedErr(e) == result.tag = "Err" /\ result.val = e

\* the last transfer read_loop received has byte 11 outside the media types
ReadBadMedia ==
    /\ last_read.made /\ last_read.parsed
    /\ At(Buffer(last_read.bulk.data), 11) \notin MediaTypeBytes

\* C12: when a status frame read during print_image has byte 11 outside
\* {00, 0A, 4A, 0B, 4B}, the call returns the Printer error "unknown media
\* type" and no write follows the request that elicited the frame (the log of
\* writes is still the one read_loop was entered with).
C12_BadMediaReported ==
    ReadBadMedia =>
        /\ \E e \in ReadLoopEntries : wlog = e.wlog
        /\ pc = "done" => ReturnedErr(PrinterErr("unknown media type", ""))

\* the error of get_status and cmd_status_request is the one read() returned
StatusReplyBadMedia ==
    ReturnedErr(PrinterErr("unknown media type", "")) =>
        pc = "done" /\ wlog[Len(wlog)] = Sent(STATUS_REQUEST)

\* the validation column of the frame table
FrameAccepted(f) ==
    /\ At(f, 0) = 128 /\ At(f, 1) = 32 /\ At(f, 2) = 66
    /\ At(f, 3) = 52
    /\ At(f, 4) = 56
    /\ At(f, 5) = 48
    /\ At(f, 6) \in {48, 0}
    /\ At(f, 7) = 0
    /\ At(f, 11) \in MediaTypeBytes
    /\ At(f, 12) = 0 /\ At(f, 13) = 0
    /\ At(f, 16) = 0
    /\ At(f, 18) \in {0, 1, 2, 4, 5, 6}
    /\ At(f, 19) \in {0, 1}
    /\ At(f, 22) \in {0, 3, 4}

\* the mappings of the frame table, as sets of <<byte, name>>
StatusTypeTable ==
    {<<0, "ReplyToStatusRequest">>, <<1, "PrintingCompleted">>,
     <<2, "ErrorOccurred">>, <<4, "TurnedOff">>, <<5, "Notification">>,
     <<6, "PhaseChange">>}
PhaseTypeTable == {<<0, "WaitingToReceive">>, <<1, "PrintingState">>}
NotificationTable ==
    {<<0, "NotAvailable">>, <<3, "CoolingStarted">>, <<4, "CoolingFinished">>}
MediaTypeTable ==
    {<<0, "None">>, <<10, "ContinuousTape">>, <<74, "ContinuousTape">>,
     <<11, "DieCutLabels">>, <<75, "DieCutLabels">>}

\* C13: interpret_response returns Ok exactly for the frames the validation
\* column accepts (byte 4 = 38, the one model code known), and a Printer error
\* for every other frame; on Ok the status type, phase, notification and
\* media type are the tabulated mappings of bytes 18, 19, 22 and 11, and
\* width and length are bytes 10 and 17.
C13_InterpretAcceptsTable ==
    ret # NoRet =>
        LET r == ret.val IN
        /\ r.ok <=> FrameAccepted(arg)
        /\ ~r.ok => r.val.kind = "Printer"
        /\ r.ok =>
            /\ <<At(arg, 18), r.val.status_type>> \in StatusTypeTable
            /\ <<At(arg, 19), r.val.phase_type>> \in PhaseTypeTable
            /\ <<At(arg, 22), r.val.notification>> \in NotificationTable
            /\ <<At(arg, 11), r.val.media.media_type>> \in MediaTypeTable
            /\ r.val.media.width = At(arg, 10)
            /\ r.val.media.length = At(arg, 17)

C13_Witness ==
    /\ ret # NoRet /\ ret.val.ok
    /\ At(arg, 11) = 75 /\ ret.val.val.media.media_type = "DieCutLabels"
    /\ At(arg, 17) = 90 /\ ret.val.val.media.length = 90

\* the other side of C13: a frame rejected for its byte 7 alone
C13_RejectedReached ==
    /\ ret # NoRet /\ ~ret.val.ok
    /\ At(arg, 7) = 1 /\ FrameAccepted([arg EXCEPT ![8] = 0])

\* the error bit table: <<byte, bit number>> in table order
ErrorBitTable ==
    << <<8, 0>>, <<8, 1>>, <<8, 2>>, <<8, 4>>, <<8, 5>>, <<8, 6>>, <<8, 7>>,
       <<9, 0>>, <<9, 1>>, <<9, 2>>, <<9, 3>>, <<9, 4>>, <<9, 5>>, <<9, 6>>,
       <<9, 7>> >>

ErrorMessages ==
    <<"No media when printing", "End of media (die-cut)", "Tape cutter jam",
      "Main unit in use", "Printer turned off", "High-voltage adapter",
      "Fan doesn't work", "Replace Media", "Expansion buffer full",
      "Communication error", "Communication buffer full", "Cover open",
      "Cancel key", "Cannot feed", "System error">>

BitSet(byte, n) == (byte \div (2 ^ n)) % 2 = 1

\* the rows of the table whose bit is set in frame f
RowsSet(f) ==
    {k \in 1..Len(ErrorBitTable) :
        BitSet(At(f, ErrorBitTable[k][1]), ErrorBitTable[k][2])}

\* the frame with its two error bytes cleared
WithoutErrors(f) == [f EXCEPT ![9] = 0, ![10] = 0]

\* C14: the error flags are informational.  Whatever bytes 8 and 9 hold,
\* interpret_response returns what it returns with both cleared as far as Ok
\* or error goes; and on Ok the errors vector holds one message per set bit
\* of the 15 tabulated bits, in table order, and nothing else (byte 8 bit 3
\* adds no message).
C14_ErrorFlagsInformational ==
    ret # NoRet =>
        LET r == ret.val
            rows == RowsSet(arg) IN
        /\ r.ok <=> FrameAccepted(WithoutErrors(arg))
        /\ r.ok =>
            /\ Len(r.val.errors) = Cardinality(rows)
            /\ \A i \in 1..Len(r.val.errors) :
                \E k \in rows :
                    /\ Cardinality({j \in rows : j < k}) = i - 1
                    /\ r.val.errors[i] = ErrorMessages[k]

C14_Witness ==
    /\ ret # NoRet /\ ret.val.ok
    /\ At(arg, 8) = 255 /\ At(arg, 9) = 16
    /\ Len(ret.val.val.errors) = 8
    /\ ret.val.val.errors[8] = "Cover open"

\* byte 8 bit 3 alone: Ok with no message
C14_UntabulatedBitReached ==
    /\ ret # NoRet /\ ret.val.ok
    /\ At(arg, 8) = 8 /\ At(arg, 9) = 0
    /\ ret.val.val.errors = <<>>

\* the five sub-commands: <<offset, header>>
SubCommands ==
    << <<0, <<27, 105, 122>> >>, <<13, <<27, 105, 65>> >>,
       <<17, <<27, 105, 77>> >>, <<21, <<27, 105, 75>> >>,
       <<25, <<27, 105, 100>> >> >>

Resolves(media) ==
    \/ media.width = 62 /\ media.length = 0
    \/ media.width = 29 /\ media.length = 90

\* C15: for every Info whose media type is ContinuousTape or DieCutLabels
\* and whose media resolves in the catalogue, serialize returns exactly 30
\* bytes, with the headers of print information, cut-each, mode, expanded
\* mode and margins at offsets 0, 13, 17, 21 and 25.
C15_HeaderIsThirtyBytes ==
    (ret # NoRet /\ arg.media.media_type # "None" /\ Resolves(arg.media)) =>
        /\ ret.val.tag = "Ok"
        /\ Len(ret.val.val) = 30
        /\ \A k \in 1..Len(SubCommands) :
            SubSeq(ret.val.val, SubCommands[k][1] + 1, SubCommands[k][1] + 3)
                = SubCommands[k][2]

C15_Witness ==
    /\ ret # NoRet /\ ret.val.tag = "Ok"
    /\ arg.media = [media_type |-> "DieCutLabels", width |-> 29, length |-> 90]
    /\ arg.num_lines = 65536 /\ arg.cut_each = 255
    /\ SubSeq(ret.val.val, 8, 11) = <<0, 0, 1, 0>>
    /\ SubSeq(ret.val.val, 14, 17) = <<27, 105, 65, 255>>

\* the pixels of an image that are not white (255)
NotWhite(image) ==
    {p \in (0..(image.width - 1)) \X (0..(image.height - 1)) :
        GetPixel(image, p[1], p[2]) # 255}

\* a line with the one bit of column c set
OneBitLine(c) == [Zeros(90) EXCEPT ![89 - (c \div 8) + 1] = 2 ^ (c % 8)]

\* C16: for an image of width w <= 720 that is white but for one black pixel
\* at column c, row r, line r of the encoding has exactly one set bit, bit
\* c mod 8 of byte 89 - (c div 8), and every other line is all zero.
C16_OnePixelOneBit ==
    (ret # NoRet /\ arg.width <= 720 /\ Cardinality(NotWhite(arg)) = 1) =>
        LET p == CHOOSE q \in NotWhite(arg) : TRUE IN
        GetPixel(arg, p[1], p[2]) = 0 =>
            ret.val = [y \in 1..arg.height |->
                        IF y = p[2] + 1 THEN OneBitLine(p[1]) ELSE Zeros(90)]

C16_Witness ==
    /\ ret # NoRet /\ arg.width = 720 /\ arg.height = 2
    /\ NotWhite(arg) = {<<712, 1>>}
    /\ ret.val[2][1] = 1 /\ ret.val[1] = Zeros(90)

\* the bit of column c in an encoded line
ColumnBit(line, c) == BitSet(line[89 - (c \div 8) + 1], c % 8)

\* C17: for every gray image, of any width (above 720 too) and height h, the
\* encoding has exactly h lines of exactly 90 bytes, and the bit of column c
\* of line r is set iff c is inside the image and pixel (c, r) has luma
\* <= 127: the bits of the columns c >= width are clear.
C17_LinesOfNinetyBytes ==
    ret # NoRet =>
        /\ Len(ret.val) = arg.height
        /\ \A y \in 1..Len(ret.val) :
            /\ Len(ret.val[y]) = 90
            /\ \A b \in 1..90 : ret.val[y][b] \in 0..255
            /\ \A c \in 0..719 :
                ColumnBit(ret.val[y], c) <=>
                    (c < arg.width /\ GetPixel(arg, c, y - 1) <= 127)

C17_Witness ==
    /\ ret # NoRet /\ arg.width = 725 /\ arg.height = 2
    /\ GetPixel(arg, 719, 1) = 127 /\ GetPixel(arg, 712, 1) = 128
    /\ ColumnBit(ret.val[2], 719) /\ ~ColumnBit(ret.val[2], 712)

\* a narrow image: the columns beyond the width stay clear
C17_NarrowReached ==
    /\ ret # NoRet /\ arg.width = 9 /\ Cardinality(NotWhite(arg)) > 1
    /\ \A b \in 1..88 : ret.val[1][b] = 0
    /\ ret.val[1][89] \in {0, 1}

\* C18: the two-entry dither palette maps every luma v < 128 to black (00,
\* index 0) and every v >= 128 to white (FF, index 1); so it takes a value
\* for black exactly when the rasterizer does (luma <= 127).
C18_PaletteThreshold ==
    ret # NoRet =>
        /\ arg < 128 => ret.val.index = 0 /\ ret.val.color = 0
        /\ arg >= 128 => ret.val.index = 1 /\ ret.val.color = 255
        /\ ret.val.color = 0 <=> luma_bit(arg) = 1

\* what the palette does: black below 127, and its two ways of naming the
\* entry agree
PaletteThresholdIs127 ==
    ret # NoRet =>
        /\ ret.val.index = 0 <=> arg < 127
        /\ ret.val.entry = Some(ret.val.color)

\* exactly one interface with exactly one descriptor, which holds a bulk IN
\* and a bulk OUT endpoint and no endpoint that is not bulk
WellStructured(device) ==
    /\ Len(device) = 1
    /\ Len(device[1]) = 1
    /\ LET endpoints == device[1][1] IN
        /\ \A i \in 1..Len(endpoints) : endpoints[i].transfer_type = "Bulk"
        /\ \E i \in 1..Len(endpoints) : endpoints[i].direction = "In"
        /\ \E i \in 1..Len(endpoints) : endpoints[i].direction = "Out"

\* C19: for every device that is not of that structure, new fails with a
\* Device error, the interface is not claimed and no byte is written.
\* (Stated for the calls in which no rusb call fails.)
C19_StructureChecked ==
    (ret # NoRet /\ arg.fail = "none" /\ ~WellStructured(arg.device)) =>
        /\ ~ret.val.result.ok
        /\ ret.val.result.val.kind = "Device"
        /\ ~ret.val.claimed
        /\ wlog = <<>>

\* what new does check: the first descriptor of the first interface
FirstDescriptorChecked ==
    (ret # NoRet /\ arg.fail = "none") =>
        IF arg.device # <<>> /\ arg.device[1] # <<>>
                /\ WellStructured(<< <<arg.device[1][1]>> >>)
            THEN ret.val.result.ok /\ ret.val.claimed /\ Len(wlog) = 3
            ELSE /\ ~ret.val.result.ok /\ ret.val.result.val.kind = "Device"
                 /\ ~ret.val.claimed /\ wlog = <<>>

\* C20: within cmd_print printed_copies changes only by +1, and only in the
\* step that follows a post-terminator read_loop that ended in Waiting; so
\* a cooling pause (the read_loop after a failed line write, and the check
\* that follows it) leaves it as it was.
C20_CopiesCountedAfterVerify ==
    [][/\ printed_copies' # printed_copies =>
            /\ printed_copies' = printed_copies + 1
            /\ pc = "verify_check" /\ state = "Waiting"
       /\ pc \in {"cooldown_read", "cooldown_check"} =>
            printed_copies' = printed_copies]_vars

\* a cooling pause seen through during the second copy, the first counted
C20_Witness ==
    /\ pc = "cooldown_check" /\ printed_copies = 1
    /\ rl_path = <<"Waiting", "PrintingStarted", "Cooling", "PrintingStarted">>

LastWrite(log) == log[Len(log)]

\* what one step does while cmd_invalidate is running
InvalidateStep ==
    pc = "invalidate" =>
        /\ wlog' = Append(wlog, LastWrite(wlog'))
        /\ LastWrite(wlog').data = Zeros(400)
        /\ result' = result
        /\ pc' = IF LastWrite(wlog').res = "Ok" THEN "initialize" ELSE "invalidate"

\* C21: cmd_invalidate never returns an error: while it runs every step is a
\* write of 400 zero bytes, after a failed write (Busy or any other error) it
\* is still running and writes again, and it returns, to the initialize
\* step, only on a write that succeeded; so the initialize step is reached
\* only after such a write, and it is reached whenever the transport
\* eventually accepts a write.
C21_InvalidateRetriesUntilWritten ==
    /\ [][InvalidateStep]_vars
    /\ [][(pc' = "initialize" /\ pc # "initialize") =>
            (pc = "invalidate" /\ LastWrite(wlog') = Sent(Zeros(400)))]_vars
    /\ (pc = "invalidate") ~> (pc = "initialize")

C21_Witness ==
    /\ pc = "initialize"
    /\ Len(wlog) = 3
    /\ wlog[2] = [data |-> Zeros(400), res |-> "Timeout"]
    /\ wlog[3] = Sent(Zeros(400))

\* cmd_status_request is polling
Polling == pc \in {"status_read", "final_status_read"}

\* the frame cmd_status_request returned reached its caller: print_image
\* returns it, cmd_print binds it to `status`
FrameReturned(r) ==
    \/ pc = "done" /\ result = Returned(r)
    \/ status = r.val /\ (pc = "header" \/ (pc = "done" /\ result.tag = "Err"
                                                /\ result.val.kind = "Printer"))

\* C22: cmd_status_request writes 1B 69 53 and then polls read: after a read
\* that timed out it is still polling or, the general timeout having elapsed,
\* has returned Timeout; any other read error is returned; a frame that a
\* read yields is returned to the caller, so Timeout is returned only when no
\* frame was read; and nothing is written after the request once it has
\* returned Timeout.
C22_StatusRequestPolls ==
    last_read.made =>
        /\ LastWrite(wlog).data = <<27, 105, 83>>
        /\ LET r == read(last_read.bulk) IN
           IF read_retries(last_read.bulk) THEN Polling
           ELSE IF r = Err(UsbError("Timeout"))
                THEN Polling \/ (pc = "done" /\ ReturnedErr(UsbError("Timeout")))
           ELSE IF ~r.ok THEN pc = "done" /\ result = Returned(r)
           ELSE FrameReturned(r)

\* what does hold: the result is the one read() gave, or Timeout
StatusRequestReturnsReadOrTimeout ==
    (last_read.made /\ ~Polling) =>
        LET r == read(last_read.bulk) IN
        \/ pc = "done" /\ ReturnedErr(UsbError("Timeout"))
        \/ ~r.ok /\ pc = "done" /\ result = Returned(r)
        \/ r.ok /\ FrameReturned(r)

\* a whole frame was read and Timeout returned
FrameDroppedReached ==
    /\ last_read.made /\ last_read.bulk = BulkOk(FReplyWaiting)
    /\ pc = "done" /\ ReturnedErr(UsbError("Timeout"))

\* indices of the status requests written: the one of get_status, the one of
\* cmd_print and the one that ends print_image
StatusRequests == {i \in 1..Len(wlog) : wlog[i].data = <<27, 105, 83>>}

Nth(S, n) == CHOOSE i \in S : Cardinality({j \in S : j < i}) = n - 1

\* the writes of cmd_print that follow its status request
JobWrites ==
    IF Cardinality(StatusRequests) < 2 THEN <<>>
    ELSE SubSeq(wlog, Nth(StatusRequests, 2) + 1,
                IF Cardinality(StatusRequests) >= 3
                    THEN Nth(StatusRequests, 3) - 1 ELSE Len(wlog))

\* a job header that carries the media of cmd_print's status reply and the
\* number of encoded lines
HeaderCarries(d) ==
    /\ Len(d) = 30
    /\ SubSeq(d, 1, 3) = <<27, 105, 122>>
    /\ d[5] = (IF status.media.media_type = "ContinuousTape" THEN 10 ELSE 11)
    /\ d[6] = status.media.width
    /\ d[7] = status.media.length
    /\ SubSeq(d, 8, 11) = <<Len(lines), 0, 0, 0>>

\* C23: within one cmd_print call the writes after its status request are,
\* copy after copy: one job header, then one raster command (67 00 5A + 90
\* bytes) per encoded line in line order, then one terminator; every header
\* has the same bytes, carries the media of the status reply read in that
\* call, and has num_lines equal to the number of encoded lines.
C23_CopyWritesInOrder ==
    \A j \in 1..Len(JobWrites) :
        LET slot == (j - 1) % (Len(lines) + 2)
            d == JobWrites[j].data IN
        IF slot = 0 THEN HeaderCarries(d) /\ d = JobWrites[1].data
        ELSE IF slot <= Len(lines) THEN d = <<103, 0, 90>> \o lines[slot]
        ELSE d = <<12>> \/ d = <<26>>

C23_Witness ==
    /\ pc = "final_status_write" /\ copies = 2 /\ Len(lines) = 2
    /\ status.media = [media_type |-> "DieCutLabels", width |-> 29, length |-> 90]
    /\ Len(JobWrites) = 8
    /\ JobWrites[3].res = "Timeout"

\* the last write is a terminator the device accepted
TerminatorSent ==
    wlog # <<>> /\ IsTerminator(LastWrite(wlog)) /\ LastWrite(wlog).res = "Ok"

\* what follows a terminator: the read-loop, its check, and only from state
\* Waiting the next write
AfterTerminator ==
    /\ (wlog' # wlog /\ IsTerminator(LastWrite(wlog')) /\ LastWrite(wlog').res = "Ok")
            => (pc' = "verify_read" /\ rl_path' = <<state>>)
    /\ (pc = "verify_read" /\ pc' # pc)
            => (pc' = "verify_check" /\ wlog' = wlog)
    /\ pc = "verify_check" =>
            /\ wlog' = wlog
            /\ IF state = "Waiting"
                   THEN /\ result' = result
                        /\ pc' \in {"header", "final_status_write"}
                   ELSE /\ pc' = "done"
                        /\ result' = Returned(Err(PrinterErr(
                               "unexpected state during verification: ", state)))
    /\ (TerminatorSent /\ wlog' # wlog) =>
            /\ state = "Waiting"
            /\ rl_path = <<>>
            /\ \/ pc = "header" /\ IsHeader(LastWrite(wlog'))
               \/ pc = "final_status_write" /\ LastWrite(wlog').data = <<27, 105, 83>>
    /\ (pc' = "final_status_write" /\ pc # pc') =>
            (pc = "verify_check" /\ state = "Waiting" /\ TerminatorSent)

\* C24: after each terminator the read-loop is run; the header of the next
\* copy, or the return of cmd_print with Ok and the final status request of
\* print_image, happens only if that read-loop ended in state Waiting, and if
\* it ended in any other state cmd_print returns the Printer error
\* "unexpected state during verification".
C24_NextCopyOnlyFromWaiting == [][AfterTerminator]_vars

C24_Witness ==
    /\ pc = "line" /\ copies = 2 /\ printed_copies = 1
    /\ Len(JobWrites) = Len(lines) + 3
    /\ JobWrites[Len(lines) + 2] = Sent(<<12>>)
    /\ IsHeader(LastWrite(wlog))

\* a copy that was not verified ends the call with the Printer error
C24_UnverifiedReached ==
    /\ pc = "done" /\ TerminatorSent /\ state = "PrintingStarted"
    /\ ReturnedErr(PrinterErr("unexpected state during verification: ",
                               "PrintingStarted"))

\* C25: in the 13-byte print information command Info::serialize produces,
\* byte 3 is 0x8E, with 0x40 added when prioritize_quality is set, byte 4 is
\* 0x0A for ContinuousTape and 0x0B for DieCutLabels, bytes 5 and 6 are
\* media.width and media.length, bytes 7..10 are num_lines with the least
\* significant byte first, byte 11 is 0 for page Starting and 1 for Other,
\* and byte 12 is 0.
C25_PrintInformationBytes ==
    (ret # NoRet /\ ret.val.tag = "Ok") =>
        LET d == ret.val.val IN
        /\ \A i \in 0..12 : At(d, i) \in 0..255
        /\ At(d, 3) = 142 + (IF arg.prioritize_quality THEN 64 ELSE 0)
        /\ arg.media.media_type = "ContinuousTape" => At(d, 4) = 10
        /\ arg.media.media_type = "DieCutLabels" => At(d, 4) = 11
        /\ arg.media.media_type \in {"ContinuousTape", "DieCutLabels"}
        /\ At(d, 5) = arg.media.width
        /\ At(d, 6) = arg.media.length
        /\ At(d, 7) + 256 * At(d, 8) + 65536 * At(d, 9) + 16777216 * At(d, 10)
                = arg.num_lines
        /\ arg.page = "Starting" => At(d, 11) = 0
        /\ arg.page = "Other" => At(d, 11) = 1
        /\ At(d, 12) = 0

C25_Witness ==
    /\ ret # NoRet /\ ret.val.tag = "Ok"
    /\ ~arg.prioritize_quality /\ arg.page = "Starting"
    /\ arg.num_lines = 2147483647
    /\ SubSeq(ret.val.val, 1, 13)
            = <<27, 105, 122, 142, 10, 62, 0, 255, 255, 255, 127, 0, 0>>

\* the bytes of a frame that the codec does not validate
Unvalidated == {14, 15, 20, 21} \cup (23..31)

VariantBytes == {0, 1, 63, 128, 255}

\* frames that differ from f only in unvalidated bytes: one of them replaced,
\* or all of them
Variants(f) ==
    {[f EXCEPT ![p + 1] = v] : p \in Unvalidated, v \in VariantBytes}
    \cup {[i \in 1..32 |-> IF (i - 1) \in Unvalidated THEN v ELSE f[i]] :
                v \in VariantBytes}

\* C26: the parse result depends only on the validated bytes: a 32-byte
\* frame that differs from the one parsed only in bytes 14, 15, 20, 21 or
\* 23..31 gives the same interpret_response outcome, the same Ok record or
\* the same error.
C26_UnvalidatedBytesIgnored ==
    ret # NoRet => \A g \in Variants(arg) : interpret_response(g) = ret.val

C26_Witness ==
    /\ ret # NoRet /\ ret.val.ok
    /\ arg = [FReplyWaiting EXCEPT ![26] = 255]
    /\ ret.val = interpret_response(FReplyWaiting)
    /\ [i \in 1..32 |-> IF (i - 1) \in Unvalidated THEN 255 ELSE arg[i]]
            \in Variants(arg)

\* a rejected frame stays rejected with the same error
C26_RejectedReached ==
    /\ ret # NoRet /\ ~ret.val.ok
    /\ arg = [FReplyWaiting EXCEPT ![17] = 1]

\* the writes of the reset sequence and of the status probe
ResetWrites == <<Zeros(200), <<27, 64>>, <<27, 105, 83>>>>

\* the first alternate setting of the first interface has bulk endpoints
\* only, one of them IN and one OUT
FirstDescriptorUsable(device) ==
    device # <<>> /\ device[1] # <<>> /\ WellStructured(<< <<device[1][1]>> >>)

\* C27: a call of new writes nothing before it has claimed the interface;
\* when it succeeds its writes are exactly 200 zero bytes, 1B 40 and the
\* status request 1B 69 53, in this order, followed by one status read; that
\* kernel_driver_active cannot be queried is not an error; and when a write
\* or the status probe fails new returns an error, having written nothing
\* after the failure.
C27_ResetThenProbe ==
    ret # NoRet =>
        LET out == ret.val IN
        /\ wlog # <<>> => out.claimed
        /\ Len(wlog) <= 3
        /\ \A i \in 1..Len(wlog) : wlog[i].data = ResetWrites[i]
        /\ out.reads = 1 => (Len(wlog) = 3 /\ wlog[3].res = "Ok")
        /\ out.result.ok =>
                /\ out.claimed /\ Len(wlog) = 3 /\ out.reads = 1
                /\ \A i \in 1..3 : wlog[i].res = "Ok"
        /\ (arg.fail = "none" /\ FirstDescriptorUsable(arg.device))
                => out.result.ok
        /\ \A i \in 1..Len(wlog) :
                wlog[i].res # "Ok" => (~out.result.ok /\ i = Len(wlog))
        /\ arg.fail \in {"write_clear", "write_initialize", "get_status_write",
                          "get_status_read", "get_status_frame"}
                => ~out.result.ok

\* new succeeds although kernel_driver_active returned an error
C27_Witness ==
    /\ ret # NoRet /\ ret.val.result.ok
    /\ arg.kd = "Err" /\ arg.fail = "none"
    /\ arg.device = << <<(<<BulkOut, BulkIn>>)>> >>
    /\ ret.val.claimed /\ ret.val.reads = 1
    /\ wlog = <<Sent(Zeros(200)), Sent(<<27, 64>>), Sent(<<27, 105, 83>>)>>

\* the status probe reads a frame that does not parse: new returns the error
C27_ProbeFailureReached ==
    /\ ret # NoRet /\ arg.fail = "get_status_frame"
    /\ ret.val.result = Err(PrinterErr("unknown media type", ""))
    /\ Len(wlog) = 3 /\ ret.val.reads = 1

InReadLoop == pc \in {"cooldown_read", "verify_read"}

\* cmd_print is at the check that follows a read_loop
AtCheck == pc \in {"cooldown_check", "verify_check"}

ReturnedPrinterErr == pc = "done" /\ result.tag = "Err" /\ result.val.kind = "Printer"

\* C28: whenever cmd_print is about to write a raster line its state is
\* Waiting or PrintingStarted, so the error "unexpected status at start of
\* line print" is never returned; outside read_loop the states
\* PrintingFinished, Cooling and Errored are seen only at the check that
\* follows a read_loop, whose next step returns a Printer error, and in the
\* call that has returned it.
C28_LineWrittenFromWaitingOrStarted ==
    /\ [](pc = "line" => state \in {"Waiting", "PrintingStarted"})
    /\ [](result.tag = "Err" =>
            result.val.msg # "unexpected status at start of line print: ")
    /\ [](state \in {"PrintingFinished", "Cooling", "Errored"} =>
            (InReadLoop \/ AtCheck \/ ReturnedPrinterErr))
    /\ [][(AtCheck /\ state \in {"PrintingFinished", "Cooling", "Errored"}) =>
            (pc' = "done" /\ result'.tag = "Err" /\ result'.val.kind = "Printer"
             /\ wlog' = wlog)]_vars

\* the line after one whose write failed and was followed by a cooling pause
C28_Witness ==
    /\ pc = "line" /\ state = "PrintingStarted" /\ line_idx = 2
    /\ LastWrite(wlog).res = "Timeout" /\ IsRaster(LastWrite(wlog))

\* read_loop left the state Errored and cmd_print returned the error
C28_ErroredReached ==
    /\ state = "Errored" /\ ReturnedPrinterErr
    /\ result.val.msg = "unexpected state during cooldown: "

\* the state read_loop was in before the last frame it consumed
Before == rl_path[Len(rl_path) - 1]

\* C29: an invocation of read_loop that starts in Waiting or PrintingStarted
\* consumes at most 3 results of read(), a read error being the last one;
\* when it has returned the state is Waiting, reached from PrintingFinished,
\* or PrintingStarted, reached from Cooling, or Errored, never
\* PrintingFinished or Cooling; and while it has not returned the state is not
\* Errored.
C29_ReadLoopReturnsWithinThree ==
    (rl_path # <<>> /\ rl_path[1] \in {"Waiting", "PrintingStarted"}) =>
        /\ Len(rl_reads) <= 3
        /\ Len(rl_path) = Len(rl_reads) + 1
        /\ state = rl_path[Len(rl_path)]
        /\ \A i \in 1..Len(rl_reads) :
                ~rl_reads[i].ok => (i = Len(rl_reads) /\ Returning /\ state = "Errored")
        /\ Returning =>
                /\ Len(rl_reads) >= 1
                /\ state \in {"Waiting", "PrintingStarted", "Errored"}
                /\ state = "Waiting" => Before = "PrintingFinished"
                /\ state = "PrintingStarted" => Before = "Cooling"
        /\ ~Returning => state \in {"Waiting", "PrintingStarted", "PrintingFinished",
                                     "Cooling"}

C29_Witness ==
    /\ pc = "cooldown_check" /\ Len(rl_reads) = 3
    /\ rl_path = <<"Waiting", "PrintingStarted", "Cooling", "PrintingStarted">>

\* a read error ends the invocation at its second read
C29_ReadErrorReached ==
    /\ Returning /\ Len(rl_reads) = 2 /\ ~rl_reads[2].ok
    /\ rl_path = <<"PrintingStarted", "PrintingFinished", "Errored">>

\* the number of copies cmd_print sends when called with `c`
CopiesSent(c) == IF c = 0 THEN 1 ELSE c

\* C30: when cmd_print has returned Ok it has sent max(copies, 1) copies:
\* called with copies = 0 it has written one header, every raster line and
\* the terminator 1A, and has seen that copy verified; with copies >= 1 it
\* has sent exactly `copies` copies.  It never counts more copies than that.
C30_CopiesSentAtLeastOne ==
    /\ printed_copies <= CopiesSent(copies)
    /\ pc = "final_status_write" =>
            /\ printed_copies = CopiesSent(copies)
            /\ Len(JobWrites) = CopiesSent(copies) * (Len(lines) + 2)
            /\ Len(SelectSeq(JobWrites, IsHeader)) = CopiesSent(copies)
            /\ Len(SelectSeq(JobWrites, IsRaster)) = CopiesSent(copies) * Len(lines)
            /\ Len(SelectSeq(JobWrites, IsTerminator)) = CopiesSent(copies)
            /\ LastWrite(JobWrites) = Sent(<<26>>)
            /\ state = "Waiting"

C30_Witness ==
    /\ pc = "final_status_write" /\ copies = 0 /\ printed_copies = 1
    /\ Len(lines) = 2 /\ Len(JobWrites) = 4
    /\ IsHeader(JobWrites[1]) /\ IsRaster(JobWrites[2]) /\ IsRaster(JobWrites[3])
    /\ JobWrites[4] = Sent(<<26>>)

====
